---- MODULE Spec2Model ----
(***************************************************************************)
(* Model of app.py: the Bejerman .rec fixed-layout record parser and the   *)
(* multi-file consolidation script built on it.                            *)
(*                                                                         *)
(* Text is a sequence of one-character strings.  Amounts (Python floats in *)
(* the source) are integers counting hundredths.  A DataFrame is the       *)
(* sequence of its rows; a row of `merged` carries its index label `idx`.  *)
(***************************************************************************)
EXTENDS Integers, Sequences, FiniteSets, TLC

VARIABLES uploaded, archivos, pc, k, dfs, resumen, shown, messages,
          merged, concatenated, sort_index, resumen_empresa, excel_filename, workbook,
          line, rows, txt_slice, amount, tested

vars == <<uploaded, archivos, pc, k, dfs, resumen, shown, messages,
          merged, concatenated, sort_index, resumen_empresa, excel_filename, workbook,
          line, rows, txt_slice, amount, tested>>

-----------------------------------------------------------------------------
(* Characters.  Alphabet lists the characters of the model in code-point   *)
(* order; Ord is order-isomorphic to Python's ord() on them.  The letters  *)
(* cannot spell an exponent, "inf" or "nan", and all are ASCII.            *)

Alphabet ==
  << "\t", "\n", " ", ",", "-", ".", "/",
     "0", "1", "2", "3", "4", "5", "6", "7", "8", "9",
     "A", "B", "C", "_", "a", "b", "c", "x" >>

Ord(c) == CHOOSE i \in 1..Len(Alphabet) : Alphabet[i] = c

Digit == {"0", "1", "2", "3", "4", "5", "6", "7", "8", "9"}
Letter == {"A", "B", "C", "a", "b", "c", "x"}
Whitespace == {" ", "\t", "\n"}
\* \w of the re module
WordChar == Digit \cup Letter \cup {"_"}

Min(a, b) == IF a <= b THEN a ELSE b
Max(a, b) == IF a >= b THEN a ELSE b
SetMin(S) == CHOOSE x \in S : \A y \in S : x <= y
SetMax(S) == CHOOSE x \in S : \A y \in S : x >= y

Spaces(n) == [i \in 1..n |-> " "]

\* s[a:b] of Python for 0 <= a <= b <= len(s)
Slice(s, a, b) == SubSeq(s, a + 1, b)

\* str.ljust(width)
ljust(s, width) == IF Len(s) >= width THEN s ELSE s \o Spaces(width - Len(s))

\* str.strip(): leading and trailing whitespace removed
strip(s) ==
  LET keep == {i \in 1..Len(s) : s[i] \notin Whitespace}
  IN  IF keep = {} THEN <<>> ELSE SubSeq(s, SetMin(keep), SetMax(keep))

\* str.strip(chars)
strip_chars(s, chars) ==
  LET keep == {i \in 1..Len(s) : s[i] \notin chars}
  IN  IF keep = {} THEN <<>> ELSE SubSeq(s, SetMin(keep), SetMax(keep))

\* str.rstrip(chars)
rstrip_chars(s, chars) ==
  LET last == CHOOSE i \in 0..Len(s) :
                 /\ i = 0 \/ s[i] \notin chars
                 /\ \A j \in (i + 1)..Len(s) : s[j] \in chars
  IN  SubSeq(s, 1, last)

\* str.replace(c, ""): every occurrence of the character removed
remove_char(s, c) == SelectSeq(s, LAMBDA ch : ch # c)

\* str.replace(c, d) for single characters
replace_char(s, c, d) == [i \in 1..Len(s) |-> IF s[i] = c THEN d ELSE s[i]]

\* Python's < on str: lexicographic by code point
StrLess(s, t) ==
  \E i \in 1..(Len(s) + 1) :
     /\ i <= Len(t)
     /\ \A j \in 1..(i - 1) : s[j] = t[j]
     /\ (i = Len(s) + 1 \/ Ord(s[i]) < Ord(t[i]))

\* str.splitlines(): the pieces between line terminators, no piece after a
\* final terminator
splitlines(text) ==
  LET n      == Len(text)
      brk    == {i \in 1..n : text[i] = "\n"}
      starts == {p \in ({1} \cup {i + 1 : i \in brk}) : p <= n}
      stop(p) == SetMin({i \in brk : i >= p} \cup {n + 1})
      nth(j) == CHOOSE p \in starts : Cardinality({q \in starts : q < p}) = j - 1
  IN  [j \in 1..Cardinality(starts) |-> SubSeq(text, nth(j), stop(nth(j)) - 1)]

-----------------------------------------------------------------------------
(* Regular expressions.  A pattern is a sequence of atoms: a word boundary *)
(* or a character class repeated between lo and hi times (hi = Unbounded   *)
(* for "*").  Repetition is greedy with backtracking, as in re.            *)

Unbounded == -1
WB == [kind |-> "boundary", cls |-> {}, lo |-> 0, hi |-> 0]
Rep(cls, lo, hi) == [kind |-> "class", cls |-> cls, lo |-> lo, hi |-> hi]

\* re_match_from's failure, and the None of re.search
NoEnd == 0
NoMatch == [start |-> 0, stop |-> 0]

\* \b: exactly one side of position pos (between s[pos-1] and s[pos]) is \w
AtBoundary(s, pos) ==
  LET before == pos > 1 /\ s[pos - 1] \in WordChar
      after  == pos <= Len(s) /\ s[pos] \in WordChar
  IN  before # after

\* The position after the match of atoms j.. of pat at pos, or NoEnd.
RECURSIVE re_match_from(_, _, _, _)
re_match_from(pat, j, s, pos) ==
  IF j > Len(pat) THEN pos
  ELSE IF pat[j].kind = "boundary"
       THEN IF AtBoundary(s, pos) THEN re_match_from(pat, j + 1, s, pos)
                                   ELSE NoEnd
       ELSE LET avail == Len(s) - pos + 1
                cap   == IF pat[j].hi = Unbounded THEN avail
                                                  ELSE Min(pat[j].hi, avail)
                fits(n) == \A t \in 0..(n - 1) : s[pos + t] \in pat[j].cls
                ok    == {n \in pat[j].lo..cap :
                            fits(n) /\ re_match_from(pat, j + 1, s, pos + n) # NoEnd}
            IN  IF ok = {} THEN NoEnd
                ELSE re_match_from(pat, j + 1, s, pos + SetMax(ok))

\* re.search(pat, s): the leftmost match, as [start, stop) positions
\* (1-based start, stop exclusive), or NoMatch
re_search(pat, s) ==
  LET hits == {p \in 1..Len(s) : re_match_from(pat, 1, s, p) # NoEnd}
  IN  IF hits = {} THEN NoMatch
      ELSE LET p == SetMin(hits)
           IN  [start |-> p, stop |-> re_match_from(pat, 1, s, p)]

\* m.group(0)
group0(s, m) == SubSeq(s, m.start, m.stop - 1)

-----------------------------------------------------------------------------
(* Fixed positions and patterns                                            *)

EMPRESA_SLICE  == <<0, 40>>
CUENTA_SLICE   == <<286, 300>>
DESCRIPCION_SL == <<383, 460>>
CREDITO_SLICE  == <<669, 688>>
DEBITO_SLICE   == <<687, 709>>

\* the date pattern without its closing \b
FECHA_RE_open_end ==
  << WB, Rep(Digit, 1, 2), Rep({"/", "-"}, 1, 1), Rep(Digit, 1, 2),
     Rep({"/", "-"}, 1, 1), Rep(Digit, 2, 4) >>

\* r'\b(\d{1,2}[/-]\d{1,2}[/-]\d{2,4})\b'
FECHA_RE ==
  << WB, Rep(Digit, 1, 2), Rep({"/", "-"}, 1, 1), Rep(Digit, 1, 2),
     Rep({"/", "-"}, 1, 1), Rep(Digit, 2, 4), WB >>

\* the amount pattern with ,\d{1,2} for its fraction
MONTO_RE_short_fraction ==
  << Rep({"-"}, 0, 1), Rep(Digit, 1, 1), Rep(Digit \cup {"."}, 0, Unbounded),
     Rep({","}, 1, 1), Rep(Digit, 1, 2) >>

\* r'-?\d[\d\.]*,\d{2}'
MONTO_RE_IN_SLICE ==
  << Rep({"-"}, 0, 1), Rep(Digit, 1, 1), Rep(Digit \cup {"."}, 0, Unbounded),
     Rep({","}, 1, 1), Rep(Digit, 2, 2) >>

slice_text(ln, sl) ==
  LET need == sl[2]
      padded == IF Len(ln) < need THEN ljust(ln, need) ELSE ln
  IN  Slice(padded, sl[1], sl[2])

-----------------------------------------------------------------------------
(* Locale numeric parser                                                   *)

DigitValue(c) == Ord(c) - Ord("0")

RECURSIVE DigitsValue(_)
DigitsValue(ds) ==
  IF ds = <<>> THEN 0
  ELSE DigitsValue(SubSeq(ds, 1, Len(ds) - 1)) * 10 + DigitValue(ds[Len(ds)])

\* float(s) on the strings this alphabet can spell: an optional "-", digits
\* with at most one ".", at least one digit; anything else raises ValueError.
\* The value is in hundredths (fraction digits past the second are beyond the
\* two-decimal precision of the model and are dropped).
float_of(s) ==
  LET body  == IF s # <<>> /\ s[1] = "-" THEN Tail(s) ELSE s
      dots  == {i \in 1..Len(body) : body[i] = "."}
      valid == /\ \A i \in 1..Len(body) : body[i] \in Digit \cup {"."}
               /\ Cardinality(dots) <= 1
               /\ \E i \in 1..Len(body) : body[i] \in Digit
      p     == IF dots = {} THEN Len(body) + 1 ELSE SetMin(dots)
      whole == SubSeq(body, 1, p - 1)
      frac  == SubSeq(ljust(SubSeq(body, p + 1, Len(body)), 2), 1, 2)
      cents == DigitsValue(replace_char(frac, " ", "0"))
      mag   == DigitsValue(whole) * 100 + cents
  IN  IF ~valid THEN [error |-> TRUE, value |-> 0]
      ELSE [error |-> FALSE,
            value |-> IF s[1] = "-" THEN 0 - mag ELSE mag]

ar_to_float(s0) ==
  LET s == remove_char(strip(s0), " ")
  IN  IF s = <<>> THEN 0
      ELSE LET t == replace_char(remove_char(s, "."), ",", ".")
               f == float_of(t)
           IN  IF f.error THEN 0 ELSE f.value

pick_amount_from_slice(slice) ==
  LET s == remove_char(slice, " ")
      m == re_search(MONTO_RE_IN_SLICE, s)
  IN  IF m # NoMatch THEN ar_to_float(group0(s, m)) ELSE 0

-----------------------------------------------------------------------------
(* Record parser                                                           *)

\* Python's None, as a value comparable with a record
None == [none |-> TRUE]

\* the movement computed as credito + debito
movimiento_sum(credito, debito) == credito + debito

\* movimiento = credito - debito
movimiento(credito, debito) == credito - debito

parse_line_fixed(line0) ==
  LET ln1     == rstrip_chars(line0, {"\n"})
      empresa == strip(slice_text(ln1, EMPRESA_SLICE))
      cuenta  == strip(slice_text(ln1, CUENTA_SLICE))
      descr   == strip(slice_text(ln1, DESCRIPCION_SL))
      m_fecha == re_search(FECHA_RE, ln1)
  IN  IF m_fecha = NoMatch THEN None
      ELSE LET fecha_txt == group0(ln1, m_fecha)
               credito   == pick_amount_from_slice(slice_text(ln1, CREDITO_SLICE))
               debito    == pick_amount_from_slice(slice_text(ln1, DEBITO_SLICE))
           IN  [Empresa |-> empresa, Cuenta |-> cuenta, Fecha |-> fecha_txt,
                Descripcion |-> descr, Credito |-> credito, Debito |-> debito,
                Movimiento |-> movimiento(credito, debito)]

-----------------------------------------------------------------------------
(* Batch parser: pd.to_datetime(..., dayfirst=True, errors="coerce")        *)
(*                                                                         *)
(* A calendar date is the integer yyyymmdd; NaT is the null date.  The     *)
(* coercion is modelled element by element, as pandas hands a delimited    *)
(* numeric date to dateutil: day first is preferred, not required          *)
(* ("dayfirst=True is not strict", pandas documentation), a first member   *)
(* above 31 is read as the year, and a date no ordering makes valid, or    *)
(* one outside the nanosecond Timestamp range, is coerced to NaT.          *)

NaT == -1

\* the year in which the script runs (dateutil's two-digit-year window)
ThisYear == 2026

IsLeap(y) == (y % 4 = 0 /\ y % 100 # 0) \/ y % 400 = 0

DaysInMonth(y, m) ==
  IF m = 2 THEN (IF IsLeap(y) THEN 29 ELSE 28)
  ELSE IF m \in {4, 6, 9, 11} THEN 30 ELSE 31

\* dateutil parserinfo.convertyear
convertyear(y, century_specified) ==
  IF y < 100 /\ ~century_specified
  THEN LET c == y + (ThisYear \div 100) * 100
       IN  IF c >= ThisYear + 50 THEN c - 100
           ELSE IF c < ThisYear - 50 THEN c + 100 ELSE c
  ELSE y

\* the three numeric members of a date token, and whether one has more
\* than two digits
date_members(tok) ==
  LET seps == {i \in 1..Len(tok) : tok[i] \in {"/", "-"}}
      s1   == SetMin(seps)
      s2   == SetMax(seps)
  IN  [a |-> DigitsValue(SubSeq(tok, 1, s1 - 1)),
       b |-> DigitsValue(SubSeq(tok, s1 + 1, s2 - 1)),
       c |-> DigitsValue(SubSeq(tok, s2 + 1, Len(tok))),
       century |-> Len(tok) - s2 > 2]

\* dateutil _ymd.resolve_ymd for three numeric members, dayfirst=True
resolve_ymd(mb) ==
  IF mb.a > 31
  THEN IF mb.c <= 12 THEN [y |-> mb.a, d |-> mb.b, m |-> mb.c]
                     ELSE [y |-> mb.a, m |-> mb.b, d |-> mb.c]
  ELSE IF mb.a > 12 \/ mb.b <= 12
       THEN [d |-> mb.a, m |-> mb.b, y |-> mb.c]
       ELSE [m |-> mb.a, d |-> mb.b, y |-> mb.c]

to_datetime(tok) ==
  LET mb  == date_members(tok)
      r   == resolve_ymd(mb)
      y   == convertyear(r.y, mb.century)
      ymd == y * 10000 + r.m * 100 + r.d
  IN  IF /\ r.m \in 1..12
         /\ r.d >= 1 /\ r.d <= DaysInMonth(y, r.m)
         /\ ymd > 16770921 /\ ymd <= 22620411
      THEN ymd ELSE NaT

\* rows: the records of the lines parse_line_fixed accepts, in line order
accepted_rows(lines) ==
  SelectSeq([i \in 1..Len(lines) |-> parse_line_fixed(lines[i])],
            LAMBDA r : r # None)

\* the coercion followed by a dropna on the date column
coerce_fecha_dropna(rws) ==
  SelectSeq([i \in 1..Len(rws) |-> [rws[i] EXCEPT !.Fecha = to_datetime(@)]],
            LAMBDA r : r.Fecha # NaT)

\* df["Fecha"] = pd.to_datetime(df["Fecha"], dayfirst=True, errors="coerce")
coerce_fecha(rws) ==
  [i \in 1..Len(rws) |-> [rws[i] EXCEPT !.Fecha = to_datetime(@)]]

parse_rec_text(text) == coerce_fecha(accepted_rows(splitlines(text)))

-----------------------------------------------------------------------------
(* Filename sanitizer                                                      *)

\* unicodedata.normalize("NFKD", s).encode("ascii", "ignore"): the
\* characters of the model are ASCII and their own decomposition; a
\* character outside ASCII is dropped
ascii_ignore(s) == SelectSeq(s, LAMBDA c : \E i \in 1..Len(Alphabet) : Alphabet[i] = c)

\* re.sub(r'\s+', '_', s)
whitespace_to_underscore(s) ==
  LET out(i) == IF s[i] \notin Whitespace THEN <<s[i]>>
                ELSE IF i = 1 \/ s[i - 1] \notin Whitespace THEN <<"_">>
                ELSE <<>>
      F[i \in 0..Len(s)] == IF i = 0 THEN <<>> ELSE F[i - 1] \o out(i)
  IN  F[Len(s)]

slugify_filename_part(s0, maxlen) ==
  LET s1 == ascii_ignore(strip(s0))
      s2 == SelectSeq(s1, LAMBDA c : c \in Letter \cup Digit \cup {"-", "_", " "})
      s3 == strip_chars(whitespace_to_underscore(s2), {"_"})
      s4 == SubSeq(s3, 1, Min(maxlen, Len(s3)))
  IN  IF s4 # <<>> THEN s4 ELSE <<"e", "m", "p", "r", "e", "s", "a">>

-----------------------------------------------------------------------------
(* DataFrame operations used by the script                                 *)

Range(f) == {f[i] : i \in DOMAIN f}

RECURSIVE Flatten(_)
Flatten(ss) == IF ss = <<>> THEN <<>> ELSE Head(ss) \o Flatten(Tail(ss))

\* df_i["Archivo"] = up.name
with_archivo(df, name) ==
  [i \in 1..Len(df) |->
     [Empresa |-> df[i].Empresa, Cuenta |-> df[i].Cuenta, Fecha |-> df[i].Fecha,
      Descripcion |-> df[i].Descripcion, Credito |-> df[i].Credito,
      Debito |-> df[i].Debito, Movimiento |-> df[i].Movimiento,
      Archivo |-> name]]

with_idx(r, label) ==
  [Empresa |-> r.Empresa, Cuenta |-> r.Cuenta, Fecha |-> r.Fecha,
   Descripcion |-> r.Descripcion, Credito |-> r.Credito, Debito |-> r.Debito,
   Movimiento |-> r.Movimiento, Archivo |-> r.Archivo, idx |-> label]

\* reset_index(drop=True), and the index of concat(ignore_index=True)
reset_index(df) == [i \in 1..Len(df) |-> with_idx(df[i], i - 1)]

\* pd.concat(frames, ignore_index=True)
concat(frames) == reset_index(Flatten(frames))

\* the subset without "Archivo"
dedupe_subset_no_archivo(r) ==
  <<r.Empresa, r.Cuenta, r.Fecha, r.Descripcion, r.Credito, r.Debito,
    r.Movimiento>>

\* subset=["Archivo","Empresa","Cuenta","Fecha","Descripción","Crédito",
\*         "Débito","Movimiento"]
dedupe_subset(r) ==
  <<r.Archivo, r.Empresa, r.Cuenta, r.Fecha, r.Descripcion, r.Credito,
    r.Debito, r.Movimiento>>

\* DataFrame.drop_duplicates(subset=..., keep="first"): a row goes when an
\* earlier row equals it on the subset (null dates count as equal)
drop_duplicates(df) ==
  LET keep == {i \in 1..Len(df) :
                 \A j \in 1..(i - 1) : dedupe_subset(df[j]) # dedupe_subset(df[i])}
      F[i \in 0..Len(df)] ==
        IF i = 0 THEN <<>>
        ELSE IF i \in keep THEN Append(F[i - 1], df[i]) ELSE F[i - 1]
  IN  F[Len(df)]

\* ascending order on ["Fecha","Cuenta","Descripción"], na_position="last"
FechaLess(a, b) == a # NaT /\ (b = NaT \/ a < b)

sort_less(r, q) ==
  \/ FechaLess(r.Fecha, q.Fecha)
  \/ /\ r.Fecha = q.Fecha
     /\ \/ StrLess(r.Cuenta, q.Cuenta)
        \/ /\ r.Cuenta = q.Cuenta
           /\ StrLess(r.Descripcion, q.Descripcion)

\* a sort that is not stable: rows of one key come out in reverse order
sort_values_unstable(df) ==
  LET before(i) == {j \in 1..Len(df) :
                      \/ sort_less(df[j], df[i])
                      \/ (~sort_less(df[i], df[j]) /\ j > i)}
      at(n) == CHOOSE i \in 1..Len(df) : Cardinality(before(i)) = n - 1
  IN  [n \in 1..Len(df) |-> df[at(n)]]

\* the sorted frame never assigned: the rows stay in concatenation order
sort_values_discarded(df) == df

\* DataFrame.sort_values on several columns: pandas' lexsort indexer, a
\* counting sort: a row lands after every row of a smaller key and after
\* the rows of its own key that precede it
sort_values(df) ==
  LET before(i) == {j \in 1..Len(df) :
                      \/ sort_less(df[j], df[i])
                      \/ (~sort_less(df[i], df[j]) /\ j < i)}
      at(n) == CHOOSE i \in 1..Len(df) : Cardinality(before(i)) = n - 1
  IN  [n \in 1..Len(df) |-> df[at(n)]]

\* the "sum" aggregation of a column over the rows of a group, in row order
RECURSIVE column_sum(_, _)
column_sum(rws, col) ==
  IF rws = <<>> THEN 0 ELSE rws[1][col] + column_sum(Tail(rws), col)

\* the aggregation "first" in place of "sum"
groupby_empresa_first(df) ==
  LET names  == {df[i].Empresa : i \in 1..Len(df)}
      nth(n) == CHOOSE e \in names :
                   Cardinality({f \in names : StrLess(f, e)}) = n - 1
      first(e) == df[SetMin({i \in 1..Len(df) : df[i].Empresa = e})]
  IN  [n \in 1..Cardinality(names) |->
         [Empresa    |-> nth(n),
          Credito    |-> first(nth(n)).Credito,
          Debito     |-> first(nth(n)).Debito,
          Movimiento |-> first(nth(n)).Movimiento]]

\* merged.groupby("Empresa", as_index=False).agg(sum).sort_values("Empresa")
groupby_empresa_sum(df) ==
  LET names  == {df[i].Empresa : i \in 1..Len(df)}
      nth(n) == CHOOSE e \in names :
                   Cardinality({f \in names : StrLess(f, e)}) = n - 1
      group(e) == SelectSeq(df, LAMBDA r : r.Empresa = e)
  IN  [n \in 1..Cardinality(names) |->
         [Empresa    |-> nth(n),
          Credito    |-> column_sum(group(nth(n)), "Credito"),
          Debito     |-> column_sum(group(nth(n)), "Debito"),
          Movimiento |-> column_sum(group(nth(n)), "Movimiento")]]

\* merged["Cuenta"].dropna().astype(str).str.strip().iloc[0]
\*   if not merged.empty else "cuenta"
primera_cuenta_of(df) ==
  IF df # <<>> THEN strip(df[1].Cuenta) ELSE <<"c", "u", "e", "n", "t", "a">>

MAXLEN == 60

\* f"movimientos_consolidados_{cuenta_slug}.xlsx"
excel_filename_of(df) ==
  <<"movimientos_consolidados_">>
     \o slugify_filename_part(primera_cuenta_of(df), MAXLEN) \o <<".xlsx">>

\* merged.drop(columns=["Archivo"]) written with index=False
movimientos_sheet(df) ==
  [i \in 1..Len(df) |->
     [Empresa |-> df[i].Empresa, Cuenta |-> df[i].Cuenta, Fecha |-> df[i].Fecha,
      Descripcion |-> df[i].Descripcion, Credito |-> df[i].Credito,
      Debito |-> df[i].Debito, Movimiento |-> df[i].Movimiento]]

-----------------------------------------------------------------------------
(* Inputs.  A line is laid out by put; rec_line places the fields of a     *)
(* record at the columns the export uses (the date between the account and *)
(* the description, the amounts inside their slices).                      *)

put(base, off, txt) ==
  LET b == ljust(base, off + Len(txt))
  IN  SubSeq(b, 1, off) \o txt \o SubSeq(b, off + Len(txt) + 1, Len(b))

rec_line(empresa, cuenta, fecha, descr, credito, debito) ==
  put(put(put(put(put(put(<<>>, 0, empresa), 286, cuenta), 300, fecha),
              383, descr), 669, credito), 690, debito)

RECURSIVE join_lines(_)
join_lines(ls) ==
  IF ls = <<>> THEN <<>>
  ELSE IF Len(ls) = 1 THEN ls[1]
  ELSE ls[1] \o <<"\n">> \o join_lines(Tail(ls))

\* "AB" 1001 01/02/23 "x" credit 1.500,00
LineA == rec_line(<<"A", "B">>, <<"1", "0", "0", "1">>,
                  <<"0", "1", "/", "0", "2", "/", "2", "3">>, <<"x">>,
                  <<"1", ".", "5", "0", "0", ",", "0", "0">>, <<>>)
\* "Ab" (another company), the sort key of LineA, credit 10,00 debit 2,50
LineA2 == rec_line(<<"A", "b">>, <<"1", "0", "0", "1">>,
                   <<"0", "1", "/", "0", "2", "/", "2", "3">>, <<"x">>,
                   <<"1", "0", ",", "0", "0">>, <<"2", ",", "5", "0">>)
\* "AB" 1000 03/02/23 "a b" debit 7,25
LineB == rec_line(<<"A", "B">>, <<"1", "0", "0", "0">>,
                  <<"0", "3", "/", "0", "2", "/", "2", "3">>, <<"a", " ", "b">>,
                  <<>>, <<"7", ",", "2", "5">>)
\* a date token no calendar has: 99/99/99
LineX == rec_line(<<"A", "B">>, <<"1", "0", "0", "0">>,
                  <<"9", "9", "/", "9", "9", "/", "9", "9">>, <<"x">>,
                  <<"3", ",", "0", "0">>, <<>>)
\* a date token that is a date month first only: 02/13/23
LineM == rec_line(<<"C">>, <<"1", "0", "0", "2">>,
                  <<"0", "2", "/", "1", "3", "/", "2", "3">>, <<"c">>,
                  <<"1", ",", "0", "0">>, <<"1", ",", "0", "0">>)
\* no date token, well-formed amounts
LineN == rec_line(<<"A", "B">>, <<"1", "0", "0", "1">>, <<>>, <<"x">>,
                  <<"5", ",", "0", "0">>, <<"1", ",", "0", "0">>)

\* The decoded text of the files a user may upload.
Disk ==
  << join_lines(<<LineA, LineN, LineA, LineB>>),
     join_lines(<<LineX, LineA2, LineM>>) \o <<"\n">>,
     LineN >>

\* The files a user may pick, each any number of times: the first text under
\* two names, the second under two names, one name on two texts.
UploadedFile ==
  { [name |-> "a.rec", fid |-> 1], [name |-> "b.rec", fid |-> 1],
    [name |-> "b.rec", fid |-> 2], [name |-> "c.rec", fid |-> 2],
    [name |-> "c.rec", fid |-> 3] }

\* the most files a user supplies in one run
MaxUploads == 4

Uploads == UNION {[1..n -> UploadedFile] : n \in 0..MaxUploads}

\* up.read() followed by content.decode(encoding, errors="ignore")
read_decoded(up) == Disk[up.fid]

\* parse_rec_text(text) of each file of the disk
ParsedDisk == [f \in 1..Len(Disk) |-> parse_rec_text(Disk[f])]

\* df_i of a loop iteration
df_of(up) == ParsedDisk[up.fid]

-----------------------------------------------------------------------------
(* The script                                                              *)

MAX_ARCHIVOS == 3

NoWorkbook == [written |-> FALSE]

ScriptInit ==
  /\ uploaded \in Uploads
  /\ archivos = uploaded
  /\ pc = "start"
  /\ k = 0
  /\ dfs = <<>>
  /\ resumen = <<>>
  /\ shown = <<>>
  /\ messages = <<>>
  /\ merged = <<>>
  /\ concatenated = <<>>
  /\ sort_index = <<>>
  /\ resumen_empresa = <<>>
  /\ excel_filename = <<>>
  /\ workbook = NoWorkbook

ParserIdle ==
  /\ line = <<>>
  /\ rows = <<>>
  /\ txt_slice = <<>>
  /\ amount = 0
  /\ tested = FALSE

parser_vars == <<line, rows, txt_slice, amount, tested>>
script_vars == <<uploaded, archivos, pc, k, dfs, resumen, shown, messages,
                 merged, concatenated, sort_index, resumen_empresa,
                 excel_filename, workbook>>

Init == ScriptInit /\ ParserIdle

\* if not archivos: st.info(...); st.stop()
NoFiles ==
  /\ pc = "start"
  /\ archivos = <<>>
  /\ messages' = Append(messages, "info: subi entre 1 y 3 archivos")
  /\ pc' = "stopped"
  /\ UNCHANGED <<uploaded, archivos, k, dfs, resumen, shown, merged,
                 concatenated, sort_index, resumen_empresa, excel_filename,
                 workbook, parser_vars>>

\* the limit step without the truncation to three files
LimitFiles_all ==
  /\ pc = "start"
  /\ archivos # <<>>
  /\ dfs' = <<>>
  /\ resumen' = <<>>
  /\ k' = 1
  /\ pc' = "loop"
  /\ UNCHANGED <<uploaded, archivos, messages, shown, merged, concatenated,
                 sort_index, resumen_empresa, excel_filename, workbook,
                 parser_vars>>

\* if len(archivos) > 3: warning; archivos = archivos[:3]
\* dfs = []; resumen = []
LimitFiles ==
  /\ pc = "start"
  /\ archivos # <<>>
  /\ IF Len(archivos) > MAX_ARCHIVOS
       THEN /\ messages' = Append(messages, "warning: solo los primeros 3")
            /\ archivos' = SubSeq(archivos, 1, MAX_ARCHIVOS)
       ELSE UNCHANGED <<messages, archivos>>
  /\ dfs' = <<>>
  /\ resumen' = <<>>
  /\ k' = 1
  /\ pc' = "loop"
  /\ UNCHANGED <<uploaded, shown, merged, concatenated, sort_index,
                 resumen_empresa, excel_filename, workbook, parser_vars>>

\* one iteration of "for up in archivos"
ProcessFile ==
  /\ pc = "loop"
  /\ k <= Len(archivos)
  /\ \E up \in {archivos[k]} :
       \E df_i \in {df_of(up)} :
          /\ resumen' = Append(resumen,
                          [Archivo |-> up.name,
                           RegistrosOK |-> IF df_i = <<>> THEN 0 ELSE Len(df_i)])
          /\ dfs' = IF df_i # <<>> THEN Append(dfs, with_archivo(df_i, up.name))
                                   ELSE dfs
  /\ k' = k + 1
  /\ UNCHANGED <<uploaded, archivos, pc, shown, messages, merged, concatenated,
                 sort_index, resumen_empresa, excel_filename, workbook,
                 parser_vars>>

\* st.write("### Resultado por archivo"); st.dataframe(pd.DataFrame(resumen))
ShowReport ==
  /\ pc = "loop"
  /\ k > Len(archivos)
  /\ shown' = Append(shown, [table |-> "Resultado por archivo", data |-> resumen])
  /\ pc' = "check"
  /\ UNCHANGED <<uploaded, archivos, k, dfs, resumen, messages, merged,
                 concatenated, sort_index, resumen_empresa, excel_filename,
                 workbook, parser_vars>>

\* the check without its st.stop()
CheckValid_no_stop ==
  /\ pc = "check"
  /\ IF dfs = <<>>
       THEN messages' = Append(messages, "warning: no se obtuvieron registros validos")
       ELSE UNCHANGED messages
  /\ pc' = "concat"
  /\ UNCHANGED <<uploaded, archivos, k, dfs, resumen, shown, merged,
                 concatenated, sort_index, resumen_empresa, excel_filename,
                 workbook, parser_vars>>

\* if not dfs: st.warning(...); st.stop()
CheckValid ==
  /\ pc = "check"
  /\ IF dfs = <<>>
       THEN /\ messages' = Append(messages, "warning: no se obtuvieron registros validos")
            /\ pc' = "stopped"
       ELSE /\ pc' = "concat"
            /\ UNCHANGED messages
  /\ UNCHANGED <<uploaded, archivos, k, dfs, resumen, shown, merged,
                 concatenated, sort_index, resumen_empresa, excel_filename,
                 workbook, parser_vars>>

\* merged = pd.concat(dfs, ignore_index=True)
Concat ==
  /\ pc = "concat"
  /\ merged' = concat(dfs)
  /\ concatenated' = merged'
  /\ pc' = "dedupe"
  /\ UNCHANGED <<uploaded, archivos, k, dfs, resumen, shown, messages,
                 sort_index, resumen_empresa, excel_filename, workbook,
                 parser_vars>>

\* merged = merged.drop_duplicates(subset=[...], keep="first")
Dedupe ==
  /\ pc = "dedupe"
  /\ merged' = drop_duplicates(merged)
  /\ pc' = "sort"
  /\ UNCHANGED <<uploaded, archivos, k, dfs, resumen, shown, messages,
                 concatenated, sort_index, resumen_empresa, excel_filename,
                 workbook, parser_vars>>

\* merged = merged.sort_values([...], na_position="last").reset_index(drop=True)
\* sort_index records the index labels the sort leaves, before the reset.
Sort ==
  /\ pc = "sort"
  /\ LET sorted == sort_values(merged)
     IN  /\ sort_index' = [i \in 1..Len(sorted) |-> sorted[i].idx]
         /\ merged' = reset_index(sorted)
  /\ pc' = "summary"
  /\ UNCHANGED <<uploaded, archivos, k, dfs, resumen, shown, messages,
                 concatenated, resumen_empresa, excel_filename, workbook,
                 parser_vars>>

\* resumen_empresa = merged.groupby("Empresa", ...).agg(...).sort_values("Empresa")
Summarize ==
  /\ pc = "summary"
  /\ resumen_empresa' = groupby_empresa_sum(merged)
  /\ pc' = "filename"
  /\ UNCHANGED <<uploaded, archivos, k, dfs, resumen, shown, messages, merged,
                 concatenated, sort_index, excel_filename, workbook,
                 parser_vars>>

\* primera_cuenta, cuenta_slug, excel_filename
DeriveFilename ==
  /\ pc = "filename"
  /\ excel_filename' = excel_filename_of(merged)
  /\ pc' = "export"
  /\ UNCHANGED <<uploaded, archivos, k, dfs, resumen, shown, messages, merged,
                 concatenated, sort_index, resumen_empresa, workbook,
                 parser_vars>>

\* the two sheets of the workbook offered for download
Export ==
  /\ pc = "export"
  /\ workbook' = [written |-> TRUE,
                  Movimientos |-> movimientos_sheet(merged),
                  Resumen |-> resumen_empresa,
                  file_name |-> excel_filename]
  /\ pc' = "done"
  /\ UNCHANGED <<uploaded, archivos, k, dfs, resumen, shown, messages, merged,
                 concatenated, sort_index, resumen_empresa, excel_filename,
                 parser_vars>>

Next ==
  \/ NoFiles
  \/ LimitFiles
  \/ ProcessFile
  \/ ShowReport
  \/ CheckValid
  \/ Concat
  \/ Dedupe
  \/ Sort
  \/ Summarize
  \/ DeriveFilename
  \/ Export

Spec == Init /\ [][Next]_vars

-----------------------------------------------------------------------------
(* The script as a function of the uploaded files: what a run that reaches *)
(* the export leaves in `merged` (the empty frame when the run stops).     *)

\* archivos after the limit step
processed(files) == SubSeq(files, 1, Min(Len(files), MAX_ARCHIVOS))

\* dfs after the loop
frames_of(files) ==
  SelectSeq([i \in 1..Len(files) |-> with_archivo(df_of(files[i]), files[i].name)],
            LAMBDA df : df # <<>>)

consolidate_frames(frames) ==
  IF frames = <<>> THEN <<>>
  ELSE reset_index(sort_values(drop_duplicates(concat(frames))))

consolidate(files) == consolidate_frames(frames_of(processed(files)))

-----------------------------------------------------------------------------
(* The record parser on its own: one iteration of the loop of              *)
(* parse_rec_text over a line, for every line of LineSet.                  *)

TokChars == {"1", "/", "a"}

\* the longest of the short lines that are enumerated exhaustively
MaxTokLen == 7

ShortLines == UNION {[1..n -> TokChars] : n \in 0..MaxTokLen}

\* date-like pieces laid into long lines
Pieces ==
  { <<>>,
    <<"0", "1", "/", "0", "2", "/", "2", "3">>,
    <<"1", "-", "2", "-", "2", "0", "2", "3">>,
    <<"1", "/", "2", "-", "2", "3">>,
    <<"0", "1", "/", "0", "2", "/", "2">>,
    <<"0", "1", "/", "0", "2", "/", "2", "0", "2", "3", "1">>,
    <<"1", "2", "3", "/", "0", "2", "/", "2", "3">>,
    <<"a", "0", "1", "/", "0", "2", "/", "2", "3">>,
    <<"0", "1", "/", "0", "2", "/", "2", "3", "_">>,
    <<"0", "1", ".", "0", "2", ".", "2", "3">>,
    <<"0", "1", "/", " ", "0", "2", "/", "2", "3">>,
    <<"9", "9", "/", "9", "9", "/", "9", "9", "/", "1">> }

\* where a piece starts: in the Company slice, between Account and
\* Description, in the amount slices, across column 709, past every slice
PieceOffsets == {0, 300, 683, 705, 720}

LongLines ==
  {put(base, off, piece) :
     base \in {<<>>, LineN}, off \in PieceOffsets, piece \in Pieces}

LineSet == ShortLines \cup LongLines

ScriptIdle ==
  /\ uploaded = <<>>
  /\ archivos = <<>>
  /\ pc = "idle"
  /\ k = 0
  /\ dfs = <<>>
  /\ resumen = <<>>
  /\ shown = <<>>
  /\ messages = <<>>
  /\ merged = <<>>
  /\ concatenated = <<>>
  /\ sort_index = <<>>
  /\ resumen_empresa = <<>>
  /\ excel_filename = <<>>
  /\ workbook = NoWorkbook

LineInit ==
  /\ ScriptIdle
  /\ line \in LineSet
  /\ rows = <<>>
  /\ txt_slice = <<>>
  /\ amount = 0
  /\ tested = FALSE

\* r = parse_line_fixed(ln); if r: rows.append(r)
ParseLine ==
  /\ pc = "idle"
  /\ ~tested
  /\ \E r \in {parse_line_fixed(line)} :
       rows' = IF r # None THEN Append(rows, r) ELSE rows
  /\ tested' = TRUE
  /\ UNCHANGED <<script_vars, line, txt_slice, amount>>

LineSpec == LineInit /\ [][ParseLine]_vars

-----------------------------------------------------------------------------
(* The amount locator on its own, for every slice text of SliceTexts.      *)

SliceChars == {"0", "1", ",", ".", "-", " "}

\* the longest slice text enumerated
MaxSliceLen == 5

SliceTexts == UNION {[1..n -> SliceChars] : n \in 0..MaxSliceLen}

AmountInit ==
  /\ ScriptIdle
  /\ line = <<>>
  /\ rows = <<>>
  /\ txt_slice \in SliceTexts
  /\ amount = 0
  /\ tested = FALSE

PickAmount ==
  /\ pc = "idle"
  /\ ~tested
  /\ amount' = pick_amount_from_slice(txt_slice)
  /\ tested' = TRUE
  /\ UNCHANGED <<script_vars, line, rows, txt_slice>>

AmountSpec == AmountInit /\ [][PickAmount]_vars

-----------------------------------------------------------------------------
(* Properties of the script                                                *)

AfterConcat  == pc \in {"dedupe", "sort", "summary", "filename", "export", "done"}
AfterDedupe  == pc \in {"sort", "summary", "filename", "export", "done"}
AfterSort    == pc \in {"summary", "filename", "export", "done"}
AfterSummary == pc \in {"filename", "export", "done"}

\* the record of a row: every column but the index label
Fields(r) ==
  <<r.Archivo, r.Empresa, r.Cuenta, r.Fecha, r.Descripcion, r.Credito,
    r.Debito, r.Movimiento>>

Amounts(r) == <<r.Credito, r.Debito, r.Movimiento>>

SortKey(r) == <<r.Fecha, r.Cuenta, r.Descripcion>>

\* the labels of the rows of the concatenation no earlier row equals
KeptLabels ==
  {i - 1 : i \in {i \in 1..Len(concatenated) :
                    \A j \in 1..(i - 1) :
                       Fields(concatenated[j]) # Fields(concatenated[i])}}

\* the label the row at position n of merged had in the concatenation
LabelOf(n) == IF pc = "sort" THEN merged[n].idx ELSE sort_index[n]

RECURSIVE SumOver(_, _, _)
SumOver(df, col, I) ==
  IF I = {} THEN 0
  ELSE LET i == CHOOSE x \in I : TRUE
       IN  df[i][col] + SumOver(df, col, I \ {i})

\* C1: every record the parser produced and every record of the
\* consolidated set has Movement = Credit - Debit, and every step of the
\* pipeline (tag, concatenate, drop duplicates, sort, export) leaves the
\* Credit, Debit and Movement of a record it keeps as the parser set them.
C1_MovementIsCreditMinusDebit ==
  /\ \A f \in 1..Len(dfs) : \A i \in 1..Len(dfs[f]) :
        dfs[f][i].Movimiento = dfs[f][i].Credito - dfs[f][i].Debito
  /\ \A i \in 1..Len(merged) :
        merged[i].Movimiento = merged[i].Credito - merged[i].Debito
  /\ AfterConcat =>
        /\ Len(concatenated) = Len(Flatten(dfs))
        /\ \A i \in 1..Len(concatenated) :
              Amounts(concatenated[i]) = Amounts(Flatten(dfs)[i])
  /\ pc = "dedupe" => merged = concatenated
  /\ AfterDedupe =>
        \A n \in 1..Len(merged) :
           /\ LabelOf(n) \in 0..(Len(concatenated) - 1)
           /\ Fields(merged[n]) = Fields(concatenated[LabelOf(n) + 1])
  /\ workbook.written =>
        /\ Len(workbook.Movimientos) = Len(merged)
        /\ \A i \in 1..Len(merged) :
              Amounts(workbook.Movimientos[i]) = Amounts(merged[i])

\* a finished run that dropped a duplicate and kept a record with a credit,
\* a debit and a movement that are all non-zero
C1_Witness ==
  /\ pc = "done"
  /\ Len(merged) < Len(concatenated)
  /\ \E i \in 1..Len(merged) :
        /\ merged[i].Credito # 0
        /\ merged[i].Debito # 0
        /\ merged[i].Movimiento # 0
        /\ merged[i].idx # sort_index[i]

\* C3: duplicate removal is scoped by the Archivo tag: a document supplied
\* twice under two names gives twice the records of the document supplied
\* once, supplied twice under one name it gives the records of the document
\* supplied once, and of the rows equal on the eight columns only the first
\* of the concatenation survives.
C3_DedupeScopedByArchivo ==
  /\ pc = "done" => merged = consolidate(uploaded)
  /\ pc = "stopped" => consolidate(uploaded) = <<>>
  /\ (pc = "done" /\ Len(uploaded) = 2 /\ uploaded[1].fid = uploaded[2].fid) =>
        Len(merged) = (IF uploaded[1].name # uploaded[2].name THEN 2 ELSE 1)
                         * Len(consolidate(<<uploaded[1]>>))
  /\ pc = "sort" =>
        \A n \in 1..(Len(merged) - 1) : merged[n].idx < merged[n + 1].idx
  /\ AfterDedupe =>
        /\ {LabelOf(n) : n \in 1..Len(merged)} = KeptLabels
        /\ Len(merged) = Cardinality(KeptLabels)

\* a document with a repeated line supplied under two names: both copies of
\* the document are kept, the repeated line of each is not
C3_Witness ==
  /\ pc = "done"
  /\ Len(uploaded) = 2
  /\ uploaded[1].fid = uploaded[2].fid
  /\ uploaded[1].name # uploaded[2].name
  /\ Len(consolidate(<<uploaded[1]>>)) = 2
  /\ Len(merged) = 4
  /\ Len(concatenated) = 6

StrLeq(s, t) == s = t \/ StrLess(s, t)

\* ascending (Date, Account, Description), null dates after the others
KeyLeq(r, q) ==
  IF r.Fecha # q.Fecha
  THEN r.Fecha # NaT /\ (q.Fecha = NaT \/ r.Fecha < q.Fecha)
  ELSE IF r.Cuenta # q.Cuenta THEN StrLess(r.Cuenta, q.Cuenta)
       ELSE StrLeq(r.Descripcion, q.Descripcion)

\* C4: the consolidated set is the stable sort of the deduplicated
\* concatenation by (Date, Account, Description): a permutation of it in
\* which adjacent records are in key order, records with a null date come
\* after all others, and records of one key keep their concatenation order.
C4_StableSort ==
  AfterSort =>
    /\ Len(sort_index) = Len(merged)
    /\ \A n \in 1..Len(merged) : merged[n].idx = n - 1
    /\ \A i, j \in 1..Len(merged) : i # j => sort_index[i] # sort_index[j]
    /\ {sort_index[n] : n \in 1..Len(merged)} = KeptLabels
    /\ \A n \in 1..Len(merged) :
          Fields(merged[n]) = Fields(concatenated[sort_index[n] + 1])
    /\ \A n \in 1..(Len(merged) - 1) : KeyLeq(merged[n], merged[n + 1])
    /\ \A i, j \in 1..Len(merged) :
          (merged[i].Fecha = NaT /\ merged[j].Fecha # NaT) => j < i
    /\ \A i, j \in 1..Len(merged) :
          (i < j /\ SortKey(merged[i]) = SortKey(merged[j])) =>
             sort_index[i] < sort_index[j]

\* a sorted set with two different records of one key, a null date, and a
\* record the sort moved ahead of an earlier one
C4_Witness ==
  /\ pc = "done"
  /\ \E i, j \in 1..Len(merged) :
        /\ i < j
        /\ SortKey(merged[i]) = SortKey(merged[j])
        /\ merged[i].Empresa # merged[j].Empresa
  /\ \E i \in 1..Len(merged) : merged[i].Fecha = NaT
  /\ \E i, j \in 1..Len(merged) : i < j /\ sort_index[i] > sort_index[j]

\* C5: the company summary has one row per distinct exact Company string of
\* the consolidated set, in ascending Company order, each row holding the
\* sums of Credit, Debit and Movement over the records of that company; the
\* totals of the summary are the totals of the consolidated set.
C5_CompanySummary ==
  AfterSummary =>
    LET companies == {merged[i].Empresa : i \in 1..Len(merged)}
        of(e)     == {i \in 1..Len(merged) : merged[i].Empresa = e}
        all       == 1..Len(merged)
        rws       == 1..Len(resumen_empresa)
    IN  /\ Len(resumen_empresa) = Cardinality(companies)
        /\ {resumen_empresa[n].Empresa : n \in rws} = companies
        /\ \A n \in 1..(Len(resumen_empresa) - 1) :
              StrLess(resumen_empresa[n].Empresa, resumen_empresa[n + 1].Empresa)
        /\ \A n \in rws : \A col \in {"Credito", "Debito", "Movimiento"} :
              resumen_empresa[n][col] =
                 SumOver(merged, col, of(resumen_empresa[n].Empresa))
        /\ \A col \in {"Credito", "Debito", "Movimiento"} :
              SumOver(resumen_empresa, col, rws) = SumOver(merged, col, all)
        /\ workbook.written => workbook.Resumen = resumen_empresa

\* a summary of three companies, two of them differing in case only, one
\* of them with several records
C5_Witness ==
  /\ pc = "done"
  /\ Len(resumen_empresa) = 3
  /\ resumen_empresa[1].Empresa = <<"A", "B">>
  /\ resumen_empresa[2].Empresa = <<"A", "b">>
  /\ Cardinality({i \in 1..Len(merged) : merged[i].Empresa = <<"A", "B">>}) > 2
  /\ resumen_empresa[1].Credito > 150000

ReportOfZeros ==
  [i \in 1..Len(archivos) |-> [Archivo |-> archivos[i].name, RegistrosOK |-> 0]]

\* C6: when no processed document has an accepted record the run shows the
\* per-file report (one entry of count 0 per document), signals "no valid
\* records" and stops with nothing concatenated, sorted, aggregated, named
\* or exported; a run past the check has a non-empty record set.
C6_EmptyStops ==
  /\ (pc \notin {"start", "loop"} /\ archivos # <<>>
        /\ \A i \in 1..Len(archivos) : df_of(archivos[i]) = <<>>) =>
        /\ pc \in {"check", "stopped"}
        /\ shown = <<[table |-> "Resultado por archivo", data |-> ReportOfZeros]>>
        /\ pc = "stopped" =>
              messages[Len(messages)] = "warning: no se obtuvieron registros validos"
  /\ pc \in {"check", "stopped"} =>
        /\ merged = <<>> /\ concatenated = <<>> /\ sort_index = <<>>
        /\ resumen_empresa = <<>> /\ excel_filename = <<>>
        /\ workbook = NoWorkbook
  /\ (pc = "stopped" /\ archivos # <<>>) =>
        /\ dfs = <<>>
        /\ \A i \in 1..Len(archivos) : df_of(archivos[i]) = <<>>
  /\ pc = "concat" => dfs # <<>> /\ \A f \in 1..Len(dfs) : dfs[f] # <<>>
  /\ AfterConcat => merged # <<>>
  /\ AfterSummary => resumen_empresa # <<>>
  /\ workbook.written => workbook.Movimientos # <<>> /\ workbook.Resumen # <<>>

\* two documents without an accepted record: the report is shown, the run
\* has stopped on the warning
C6_Witness ==
  /\ pc = "stopped"
  /\ Len(archivos) >= 2
  /\ shown # <<>>
  /\ Len(shown[1].data) = Len(archivos)
  /\ messages # <<>>

\* the orders in which the run could have received the files
Perms(files) ==
  {[i \in 1..Len(files) |-> files[p[i]]] :
     p \in {q \in [1..Len(files) -> 1..Len(files)] :
              \A i, j \in 1..Len(files) : i # j => q[i] # q[j]}}

DistinctNames(files) ==
  \A i, j \in 1..Len(files) : i # j => files[i].name # files[j].name

export_of(files)   == movimientos_sheet(consolidate(files))
summary_of(files)  == groupby_empresa_sum(consolidate(files))
filename_of(files) == excel_filename_of(consolidate(files))

Occurrences(df, r) == Cardinality({i \in 1..Len(df) : df[i] = r})

\* C7, as stated: for up to three files of distinct names every order of
\* the files gives the same exported table (as a sequence), the same
\* company summary and the same file name.
C7_OrderIrrelevant ==
  (pc = "done" /\ Len(uploaded) <= MAX_ARCHIVOS /\ DistinctNames(uploaded)) =>
    \A q \in Perms(uploaded) :
       /\ export_of(q) = workbook.Movimientos
       /\ summary_of(q) = workbook.Resumen
       /\ filename_of(q) = workbook.file_name

\* C7, amended: for up to three files of distinct names every order of the
\* files gives the same records (as a multiset) in the same sequence of
\* (Date, Account, Description) keys, so the tables differ at most in the
\* order of records of one key; the company summary and the file name are
\* the same.
C7_OrderUpToTies ==
  (pc = "done" /\ Len(uploaded) <= MAX_ARCHIVOS /\ DistinctNames(uploaded)) =>
    /\ workbook.Movimientos = export_of(uploaded)
    /\ \A q \in Perms(uploaded) :
          LET c     == consolidate(q)
              sheet == movimientos_sheet(c)
          IN  /\ Len(sheet) = Len(workbook.Movimientos)
              /\ \A n \in 1..Len(workbook.Movimientos) :
                    /\ SortKey(sheet[n]) = SortKey(workbook.Movimientos[n])
                    /\ Occurrences(sheet, workbook.Movimientos[n])
                          = Occurrences(workbook.Movimientos, workbook.Movimientos[n])
              /\ groupby_empresa_sum(c) = workbook.Resumen
              /\ excel_filename_of(c) = workbook.file_name

\* three files of distinct names of which another order exports another
\* table
C7_Witness ==
  /\ pc = "done"
  /\ Len(uploaded) = MAX_ARCHIVOS
  /\ DistinctNames(uploaded)
  /\ \E q \in Perms(uploaded) : export_of(q) # workbook.Movimientos

-----------------------------------------------------------------------------
(* Date tokens, stated without the matcher                                 *)

AllIn(s, a, b, cls) == \A t \in a..b : s[t] \in cls

\* s[i..j] is 1-2 digits, "/" or "-", 1-2 digits, "/" or "-", 2-4 digits,
\* with no word character on either side
IsDateTokenAt(s, i, j) ==
  \E a \in 1..2 : \E b \in 1..2 : \E c \in 2..4 :
     /\ j = i + a + b + c + 1
     /\ j <= Len(s)
     /\ AllIn(s, i, i + a - 1, Digit)
     /\ s[i + a] \in {"/", "-"}
     /\ AllIn(s, i + a + 1, i + a + b, Digit)
     /\ s[i + a + b + 1] \in {"/", "-"}
     /\ AllIn(s, i + a + b + 2, j, Digit)
     /\ (i = 1 \/ s[i - 1] \notin WordChar)
     /\ (j = Len(s) \/ s[j + 1] \notin WordChar)

HasDateToken(s) ==
  \E i \in {p \in 1..Len(s) : s[p] \in Digit} :
     \E j \in (i + 5)..Min(Len(s), i + 9) : IsDateTokenAt(s, i, j)

\* the lines of each file of the disk that hold a date token, in line order
DateLines ==
  [f \in 1..Len(Disk) |-> SelectSeq(splitlines(Disk[f]), HasDateToken)]

\* the records of those lines as the record parser leaves them (raw date)
RawRows ==
  [f \in 1..Len(Disk) |->
     [n \in 1..Len(DateLines[f]) |-> parse_line_fixed(DateLines[f][n])]]

\* the date a token denotes with its members read as day, month, year, or
\* NaT when that is no date of the calendar
ReadAs(d, m, y) ==
  IF m \in 1..12 /\ d >= 1 /\ d <= DaysInMonth(y, m)
  THEN y * 10000 + m * 100 + d ELSE NaT

DayFirst(tok) ==
  LET mb == date_members(tok)
  IN  ReadAs(mb.a, mb.b, convertyear(mb.c, mb.century))

MonthFirst(tok) ==
  LET mb == date_members(tok)
  IN  ReadAs(mb.b, mb.a, convertyear(mb.c, mb.century))

\* the year-first readings, tried when the first member exceeds 31
YearFirst(tok) ==
  LET mb == date_members(tok)
      y  == convertyear(mb.a, FALSE)
  IN  IF mb.a <= 31 THEN {}
      ELSE {ReadAs(mb.b, mb.c, y), ReadAs(mb.c, mb.b, y)} \ {NaT}

\* no order of the members of the token is a date of the calendar
NoCalendarDate(tok) ==
  DayFirst(tok) = NaT /\ MonthFirst(tok) = NaT /\ YearFirst(tok) = {}

\* the row of a frame tagged with a file name
Tagged(r, name) ==
  <<name, r.Empresa, r.Cuenta, r.Fecha, r.Descripcion, r.Credito, r.Debito,
    r.Movimiento>>

\* C9, as stated: a line whose date token is not a valid day-first date is
\* accepted with a null date, counted in the per-file report, kept in the
\* consolidated set after every record with a date, and summed into its
\* company's row.
C9_InvalidDayFirstIsNull ==
  pc = "done" =>
    \A i \in 1..Len(archivos) :
       LET f == archivos[i].fid
       IN  /\ resumen[i].RegistrosOK = Len(RawRows[f])
           /\ \A n \in 1..Len(RawRows[f]) :
                 DayFirst(RawRows[f][n].Fecha) = NaT =>
                    \E x \in 1..Len(merged) :
                       /\ Fields(merged[x]) =
                            Tagged([RawRows[f][n] EXCEPT !.Fecha = NaT],
                                   archivos[i].name)
                       /\ \A y \in 1..Len(merged) :
                             merged[y].Fecha # NaT => y < x

\* C9, amended: the coercion drops no record and changes the date only; a
\* line whose date token denotes no calendar date in any order of its
\* members (such as 99/99/99) is accepted with a null date; every record
\* with a null date is counted in the per-file report, kept in the
\* consolidated set after every record with a date, and summed into its
\* company's row.
C9_CoercionFailureKeepsRecord ==
  /\ \A f \in 1..Len(Disk) :
        /\ Len(ParsedDisk[f]) = Len(RawRows[f])
        /\ \A n \in 1..Len(RawRows[f]) :
              LET tok == RawRows[f][n].Fecha
              IN  /\ ParsedDisk[f][n] =
                       [RawRows[f][n] EXCEPT !.Fecha = ParsedDisk[f][n].Fecha]
                  /\ NoCalendarDate(tok) => ParsedDisk[f][n].Fecha = NaT
  /\ pc \notin {"start", "loop"} =>
        \A i \in 1..Len(archivos) :
           resumen[i].RegistrosOK = Len(RawRows[archivos[i].fid])
  /\ AfterSort =>
        /\ \A i \in 1..Len(archivos) :
              \A n \in 1..Len(ParsedDisk[archivos[i].fid]) :
                 \E x \in 1..Len(merged) :
                    Fields(merged[x]) =
                       Tagged(ParsedDisk[archivos[i].fid][n], archivos[i].name)
        /\ \A x, y \in 1..Len(merged) :
              (merged[x].Fecha = NaT /\ merged[y].Fecha # NaT) => y < x
  /\ AfterSummary =>
        \A x \in 1..Len(merged) :
           merged[x].Fecha = NaT =>
              \E n \in 1..Len(resumen_empresa) :
                 LET mine  == {y \in 1..Len(merged) :
                                 merged[y].Empresa = merged[x].Empresa}
                     dated == {y \in mine : merged[y].Fecha # NaT}
                 IN  /\ resumen_empresa[n].Empresa = merged[x].Empresa
                     /\ \A col \in {"Credito", "Debito", "Movimiento"} :
                           resumen_empresa[n][col] =
                              SumOver(merged, col, dated)
                                + SumOver(merged, col, mine \ dated)

\* a finished run whose last record has a null date and a credit, after
\* records of its company with dates
C9_Witness ==
  /\ pc = "done"
  /\ Len(merged) >= 4
  /\ merged[Len(merged)].Fecha = NaT
  /\ merged[Len(merged)].Credito = 300
  /\ merged[1].Fecha # NaT
  /\ merged[1].Empresa = merged[Len(merged)].Empresa
  /\ \E x \in 1..Len(merged) : merged[x].Fecha = 20230213

\* the number of lines of each file of the disk that hold a date token
DateLineCount == [f \in 1..Len(Disk) |-> Len(DateLines[f])]

\* the sum of the counts of the per-file report
ReportTotal == SumOver(resumen, "RegistrosOK", 1..Len(resumen))

\* the report the run shows: an entry per processed file (the first three),
\* its count the number of its lines with a date token, its records those
\* of these lines in line order
ReportIsPerFile ==
  /\ (pc \notin {"start", "loop"} /\ uploaded # <<>>) =>
        /\ Len(resumen) = Min(Len(uploaded), 3)
        /\ \A i \in 1..Len(resumen) :
              resumen[i] = [Archivo     |-> uploaded[i].name,
                            RegistrosOK |-> DateLineCount[uploaded[i].fid]]
        /\ shown[1] = [table |-> "Resultado por archivo", data |-> resumen]
  /\ AfterConcat =>
        /\ Len(concatenated) = ReportTotal
        /\ \A f \in 1..Len(dfs) : \A n \in 1..Len(dfs[f]) :
              \E i \in 1..Len(resumen) :
                 /\ Len(dfs[f]) = Len(RawRows[uploaded[i].fid])
                 /\ dfs[f][n].Archivo = uploaded[i].name
                 /\ [dfs[f][n] EXCEPT !.Fecha = 0] =
                      [Empresa |-> RawRows[uploaded[i].fid][n].Empresa,
                       Cuenta |-> RawRows[uploaded[i].fid][n].Cuenta,
                       Fecha |-> 0,
                       Descripcion |-> RawRows[uploaded[i].fid][n].Descripcion,
                       Credito |-> RawRows[uploaded[i].fid][n].Credito,
                       Debito |-> RawRows[uploaded[i].fid][n].Debito,
                       Movimiento |-> RawRows[uploaded[i].fid][n].Movimiento,
                       Archivo |-> uploaded[i].name]
  /\ AfterDedupe => Len(merged) <= ReportTotal

\* no processed document holds two lines whose records are equal
NoDocumentRepeats ==
  \A i \in 1..Len(archivos) :
     \A n, m \in 1..Len(df_of(archivos[i])) :
        n # m => df_of(archivos[i])[n] # df_of(archivos[i])[m]

\* no two records of the concatenation carry one tag and equal fields
NoTaggedRepeats ==
  \A n, m \in 1..Len(concatenated) :
     n # m => Fields(concatenated[n]) # Fields(concatenated[m])

\* C10, as stated: one report entry per processed document (the first
\* three), in input order, counting its lines with a date token before
\* deduplication; the consolidated set is no larger than the sum of the
\* counts, and as large exactly when no document holds two lines yielding
\* equal records.
C10_EqualityIffNoDocumentRepeats ==
  /\ ReportIsPerFile
  /\ AfterDedupe => (Len(merged) = ReportTotal <=> NoDocumentRepeats)

\* C10, amended: one report entry per processed document (the first
\* three), in input order, counting its lines with a date token before
\* deduplication; the consolidated set is no larger than the sum of the
\* counts, and as large exactly when no two accepted records carrying the
\* same file name are equal on all fields, be they of one document or of
\* two documents supplied under one name.
C10_EqualityIffNoTaggedRepeats ==
  /\ ReportIsPerFile
  /\ AfterDedupe => (Len(merged) = ReportTotal <=> NoTaggedRepeats)
  /\ AfterDedupe => (NoTaggedRepeats => NoDocumentRepeats)

\* four files supplied, three processed, none with a repeated line, two of
\* them one document under one name: fewer records than the report counts
C10_Witness ==
  /\ pc = "done"
  /\ Len(uploaded) = 4
  /\ Len(resumen) = 3
  /\ NoDocumentRepeats
  /\ uploaded[1] = uploaded[2]
  /\ Len(merged) < ReportTotal

-----------------------------------------------------------------------------
(* Properties of the record parser and of the amount locator               *)

\* C2: the record parser rejects a line exactly when the line holds no
\* date token (1-2 digits, "/" or "-", 1-2 digits, "/" or "-", 2-4 digits,
\* between word boundaries), whatever its slices hold and however short it
\* is; an accepted line gives exactly one record, dated by such a token.
C2_RejectIffNoDateToken ==
  tested =>
    /\ Len(rows) = (IF HasDateToken(line) THEN 1 ELSE 0)
    /\ rows # <<>> =>
          /\ DOMAIN rows[1] = {"Empresa", "Cuenta", "Fecha", "Descripcion",
                               "Credito", "Debito", "Movimiento"}
          /\ \E i \in 1..Len(line) : \E j \in (i + 5)..Min(Len(line), i + 9) :
                /\ IsDateTokenAt(line, i, j)
                /\ rows[1].Fecha = SubSeq(line, i, j)

\* a full-width line with well-formed amounts and a date-like piece that is
\* no token: rejected
C2_Witness ==
  /\ tested
  /\ rows = <<>>
  /\ Len(line) >= 709
  /\ pick_amount_from_slice(slice_text(line, CREDITO_SLICE)) # 0
  /\ pick_amount_from_slice(slice_text(line, DEBITO_SLICE)) # 0
  /\ \E i \in 1..Len(line) : line[i] = "/"

\* the text the locator searches
Searched == remove_char(txt_slice, " ")

\* the digits that follow position p of s
FractionDigits(s, p) ==
  Cardinality({n \in 1..(Len(s) - p) : AllIn(s, p + 1, p + n, Digit)})

Commas(s) == {p \in 1..Len(s) : s[p] = ","}

\* s[i..j] is an optional "-", a digit, digits and ".", a ",", two digits
IsAmountTokenAt(s, i, j) ==
  /\ 1 <= i /\ j <= Len(s) /\ j - 2 > i
  /\ s[j - 2] = ","
  /\ AllIn(s, j - 1, j, Digit)
  /\ \E b \in {i, i + 1} :
        /\ b = i + 1 <=> s[i] = "-"
        /\ b < j - 2
        /\ s[b] \in Digit
        /\ AllIn(s, b + 1, j - 3, Digit \cup {"."})

\* the value in hundredths of an amount token
TokenValue(tok) ==
  LET neg    == tok[1] = "-"
      digits == SelectSeq(tok, LAMBDA c : c \in Digit)
  IN  IF neg THEN 0 - DigitsValue(digits) ELSE DigitsValue(digits)

TokenStarts(s) ==
  {i \in 1..Len(s) : \E j \in i..Len(s) : IsAmountTokenAt(s, i, j)}

\* C8, as stated: a text whose commas are followed by more than two or by
\* fewer than two digits gives 0, and a non-zero amount comes only from an
\* optional "-", digits with "." groups, ",", exactly two digits.
C8_ExactlyTwoFractionDigits ==
  tested =>
    /\ (\A p \in Commas(Searched) : FractionDigits(Searched, p) # 2) => amount = 0
    /\ amount # 0 =>
          \E i \in 1..Len(Searched) : \E j \in i..Len(Searched) :
             /\ IsAmountTokenAt(Searched, i, j)
             /\ FractionDigits(Searched, j - 2) = 2

\* C8, amended: a text whose commas are followed by fewer than two digits
\* gives 0; otherwise the amount is read from the leftmost optional "-",
\* digit, digits and ".", ",", two digits of the text without its spaces,
\* digits after the second fraction digit being ignored (12,345 is 12.34);
\* a non-zero amount comes only from such a token.
C8_AtLeastTwoFractionDigits ==
  tested =>
    /\ (\A p \in Commas(Searched) : FractionDigits(Searched, p) < 2) => amount = 0
    /\ TokenStarts(Searched) = {} => amount = 0
    /\ TokenStarts(Searched) # {} =>
          \E j \in 1..Len(Searched) :
             /\ IsAmountTokenAt(Searched, SetMin(TokenStarts(Searched)), j)
             /\ amount = TokenValue(SubSeq(Searched, SetMin(TokenStarts(Searched)), j))

\* a comma followed by three digits, and a non-zero amount
C8_Witness ==
  /\ tested
  /\ amount # 0
  /\ Commas(Searched) # {}
  /\ \A p \in Commas(Searched) : FractionDigits(Searched, p) = 3

====
